---------------------------- MODULE Spec2Model ----------------------------
(***************************************************************************)
(* Model of prueba.py: the run-length DFA for t{3,}h{2,}, the PDA for      *)
(* L = { t^n h^n | n >= 1 } and the regular-expression detector.           *)
(*                                                                         *)
(* A DFA instance is a record of its three fields.  A call of run or of    *)
(* acepta is a frame (the locals of the call and its position in the       *)
(* code); callers are the threads that make the calls.                     *)
(***************************************************************************)
EXTENDS Integers, Sequences, FiniteSets, TLC

\* ------------------------------------------------------------------ bounds
\* Longest input over {t, h} handed to run or acepta.
MaxLen == 9
\* Longest input over {t, h, x}.
MaxMid == 7
\* Longest input over the whole alphabet (with r and the unlisted symbol z).
MaxShort == 4
\* Longest input over {t, h} a caller of the two-caller specifications draws.
MaxConc == 2
\* Direct step calls are made only while cont_t is below this cap.
MaxCount == 5
\* Longest sequence of symbols the logged direct step calls pass to an
\* instance between two resets.
MaxPrefix == 6

\* ------------------------------------------------------------------ alphabet
\* t, h, r, x are the symbols of the module docstring; z stands for any symbol
\* outside it (the code compares symbols with 't' and 'h' only).
Sigma == {"t", "h", "r", "x", "z"}
Core == {"t", "h", "x"}

SeqsUpTo(S, len) == UNION {[1..m -> S] : m \in 0..len}

\* The inputs of one sequential caller.
Inputs ==
    SeqsUpTo({"t", "h"}, MaxLen) \cup SeqsUpTo(Core, MaxMid) \cup
    SeqsUpTo(Sigma, MaxShort)

\* The inputs of each of two concurrent callers: every short sequence over
\* {t, h} and a few longer ones around the pattern.
ConcInputs ==
    SeqsUpTo({"t", "h"}, MaxConc) \cup
    { <<"t", "t", "t">>, <<"t", "t", "t", "h">>, <<"t", "t", "t", "h", "h">>,
      <<"x", "t", "t", "t", "h", "h">>, <<"t", "t", "h", "h">> }

Callers == {1, 2}
Instances == {1, 2}

\* ------------------------------------------------------------------ DFA
States == {"q0", "q1", "q2", "q3", "q4", "q_accept"}

\* DFA.reset: the three fields after self.reset().
reset == [estado |-> "q0", cont_t |-> 0, cont_h |-> 0]

\* DFA.step in q0, with the 't' branch forgetting self.cont_t = 1.
step_q0_cero(d, simbolo) ==
    IF simbolo = "t" THEN [d EXCEPT !.estado = "q1"] ELSE reset

\* DFA.step in q0.
step_q0(d, simbolo) ==
    IF simbolo = "t"
    THEN [d EXCEPT !.cont_t = 1, !.estado = "q1"]
    ELSE reset

\* DFA.step in q1.  The inner test of 't' follows self.reset() in the branch
\* taken when the symbol is not 't'.
step_q1(d, simbolo) ==
    IF simbolo = "t"
    THEN [d EXCEPT !.cont_t = d.cont_t + 1,
                   !.estado = IF d.cont_t + 1 = 2 THEN "q2" ELSE "q1"]
    ELSE IF simbolo = "t"
         THEN [reset EXCEPT !.cont_t = 1, !.estado = "q1"]
         ELSE reset

\* DFA.step in q2, with the re-entry made after self.reset() whatever the
\* symbol is.
step_q2_reentra(d, simbolo) ==
    IF simbolo = "t"
    THEN [d EXCEPT !.cont_t = d.cont_t + 1,
                   !.estado = IF d.cont_t + 1 >= 3 THEN "q3" ELSE "q2"]
    ELSE [reset EXCEPT !.cont_t = 1, !.estado = "q1"]

\* DFA.step in q2.
step_q2(d, simbolo) ==
    IF simbolo = "t"
    THEN [d EXCEPT !.cont_t = d.cont_t + 1,
                   !.estado = IF d.cont_t + 1 >= 3 THEN "q3" ELSE "q2"]
    ELSE IF simbolo = "t"
         THEN [reset EXCEPT !.cont_t = 1, !.estado = "q1"]
         ELSE reset

\* DFA.step in q3, with the 't' branch left out: a fourth 't' ends the run.
step_q3_exact(d, simbolo) ==
    IF simbolo = "h"
    THEN [d EXCEPT !.cont_h = 1, !.estado = "q4"]
    ELSE reset

\* DFA.step in q3, with a normal reading 'x' not breaking the dry run.
step_q3_lluvia(d, simbolo) ==
    IF simbolo = "h"
    THEN [d EXCEPT !.cont_h = 1, !.estado = "q4"]
    ELSE IF simbolo = "t"
         THEN [d EXCEPT !.cont_t = d.cont_t + 1, !.estado = "q3"]
         ELSE IF simbolo = "x" THEN d ELSE reset

\* DFA.step in q3.
step_q3(d, simbolo) ==
    IF simbolo = "h"
    THEN [d EXCEPT !.cont_h = 1, !.estado = "q4"]
    ELSE IF simbolo = "t"
         THEN [d EXCEPT !.cont_t = d.cont_t + 1, !.estado = "q3"]
         ELSE reset

\* DFA.step in q4, with the 't' branch left out: the 't' is dropped.
step_q4_drop(d, simbolo) ==
    IF simbolo = "h"
    THEN [d EXCEPT !.cont_h = d.cont_h + 1,
                   !.estado = IF d.cont_h + 1 >= 2 THEN "q_accept" ELSE "q4"]
    ELSE reset

\* DFA.step in q4, with the 't' branch forgetting self.cont_t = 1: the new
\* run starts with the count of the old one.
step_q4_keep(d, simbolo) ==
    IF simbolo = "h"
    THEN [d EXCEPT !.cont_h = d.cont_h + 1,
                   !.estado = IF d.cont_h + 1 >= 2 THEN "q_accept" ELSE "q4"]
    ELSE IF simbolo = "t"
         THEN [d EXCEPT !.cont_h = 0, !.estado = "q1"]
         ELSE reset

\* DFA.step in q4, with the threshold of cont_h off by one: a third 'h' is
\* needed.
step_q4_late(d, simbolo) ==
    IF simbolo = "h"
    THEN [d EXCEPT !.cont_h = d.cont_h + 1,
                   !.estado = IF d.cont_h + 1 > 2 THEN "q_accept" ELSE "q4"]
    ELSE IF simbolo = "t"
         THEN [d EXCEPT !.cont_t = 1, !.cont_h = 0, !.estado = "q1"]
         ELSE reset

\* DFA.step in q4.
step_q4(d, simbolo) ==
    IF simbolo = "h"
    THEN [d EXCEPT !.cont_h = d.cont_h + 1,
                   !.estado = IF d.cont_h + 1 >= 2 THEN "q_accept" ELSE "q4"]
    ELSE IF simbolo = "t"
         THEN [d EXCEPT !.cont_t = 1, !.cont_h = 0, !.estado = "q1"]
         ELSE reset

\* DFA.step in q_accept, ending like the other states on a symbol that is
\* neither 't' nor 'h'.
step_accept_else(d, simbolo) ==
    IF simbolo \in {"t", "h"} THEN [d EXCEPT !.estado = "q_accept"] ELSE reset

\* DFA.step in q_accept.
step_accept(d, simbolo) == [d EXCEPT !.estado = "q_accept"]

\* DFA.step with a final else that rejects a symbol outside the alphabet of
\* the docstring.
step_strict(d, simbolo) ==
    IF simbolo \notin {"t", "h", "r", "a", "x"}
    THEN [d EXCEPT !.estado = "error"]
    ELSE CASE d.estado = "q0" -> step_q0(d, simbolo)
           [] d.estado = "q1" -> step_q1(d, simbolo)
           [] d.estado = "q2" -> step_q2(d, simbolo)
           [] d.estado = "q3" -> step_q3(d, simbolo)
           [] d.estado = "q4" -> step_q4(d, simbolo)
           [] d.estado = "q_accept" -> step_accept(d, simbolo)
           [] OTHER -> d

\* DFA.step: the fields after self.step(simbolo), from the fields d.  No
\* branch of the if/elif chain is taken in a state outside the six.
step(d, simbolo) ==
    CASE d.estado = "q0" -> step_q0(d, simbolo)
      [] d.estado = "q1" -> step_q1(d, simbolo)
      [] d.estado = "q2" -> step_q2(d, simbolo)
      [] d.estado = "q3" -> step_q3(d, simbolo)
      [] d.estado = "q4" -> step_q4(d, simbolo)
      [] d.estado = "q_accept" -> step_accept(d, simbolo)
      [] OTHER -> d

\* DFA.__init__: the fields of a freshly constructed instance.
DFA_init == reset

\* run without its self.reset(): the fields stay as the caller left them.
run_noreset(d) == d

\* The self.reset() that opens run (line 100), applied to the fields d.
run_reset(d) == reset

\* The for loop of run from the k-th symbol on, on the fields d: the verdict,
\* the fields left behind and the number of step calls made.
RECURSIVE run_loop(_, _, _)
run_loop(d, secuencia, k) ==
    IF k > Len(secuencia)
    THEN [ret |-> FALSE, d |-> d, steps |-> k - 1]
    ELSE LET e == step(d, secuencia[k])
         IN  IF e.estado = "q_accept"
             THEN [ret |-> TRUE, d |-> e, steps |-> k]
             ELSE run_loop(e, secuencia, k + 1)

\* DFA.run on a freshly constructed instance.
run(secuencia) == run_loop(run_reset(DFA_init), secuencia, 1)

\* ------------------------------------------------------------------ regex
\* Length of the block of symbol a that starts at position p of s (0 if none).
RECURSIVE Block(_, _, _)
Block(s, p, a) ==
    IF p <= Len(s) /\ s[p] = a THEN 1 + Block(s, p + 1, a) ELSE 0

\* re match of a{m,}b{k,} anchored at position p: the length matched, 0 when
\* there is no match.  Both quantifiers are greedy; giving back an a never
\* helps, since the symbol given back is not a b.
MatchAt(s, p, a, m, b, k) ==
    LET na == Block(s, p, a)
        nb == Block(s, p + na, b)
    IN  IF na >= m /\ nb >= k THEN na + nb ELSE 0

\* pattern.finditer(s) from position p: the matched substrings, leftmost
\* first, each search resuming where the last match ended.
RECURSIVE finditer(_, _, _, _, _, _)
finditer(s, p, a, m, b, k) ==
    IF p > Len(s) THEN << >>
    ELSE LET len == MatchAt(s, p, a, m, b, k)
         IN  IF len > 0
             THEN <<SubSeq(s, p, p + len - 1)>> \o finditer(s, p + len, a, m, b, k)
             ELSE finditer(s, p + 1, a, m, b, k)

\* sequía_regex = t{3,}h{2,} and inundación_regex = r{2,}x{3,}
sequia_regex(s) == finditer(s, 1, "t", 3, "h", 2)
inundacion_regex(s) == finditer(s, 1, "r", 2, "x", 3)

detectar_patrones(secuencia) ==
    [sequia |-> sequia_regex(secuencia), inundacion |-> inundacion_regex(secuencia)]

\* ------------------------------------------------------------------ PDA
\* The push of the t loop putting two markers on the list.
push_doble(pila) == Append(Append(pila, "T"), "T")

\* pila.append('T')
push(pila) == Append(pila, "T")

\* The pop of the h loop emptying the list instead of removing one marker.
pop_todo(pila) == << >>

\* pila.pop()
pop(pila) == SubSeq(pila, 1, Len(pila) - 1)

\* The counter that could stand for the list (design notes of the
\* specification): one more for a push, one less for a pop, 0 for empty.
contador_push(profundidad) == profundidad + 1
contador_pop(profundidad) == profundidad - 1
contador_vacio(profundidad) == profundidad = 0

\* i += 1 in the t loop
avance_t(i) == i + 1

\* The h loop without its i += 1: the scan index stays where it is.
sin_avance(i) == i

\* i += 1 in the h loop
avance_h(i) == i + 1

\* The return of acepta without its test of the scan index.
acepta_return_sin_fin(visto_t, pila, i, n) == visto_t /\ pila = << >>

\* return visto_t and (not pila) and i == n
acepta_return(visto_t, pila, i, n) == visto_t /\ pila = << >> /\ i = n

\* The two while loops and the return of acepta, from scan index i (0-based,
\* as in the code) with the stack pila; phase is 1 in the t loop, 2 in the h
\* loop.  The verdict, the number of loop iterations made, the scan index and
\* the stack at the return.
RECURSIVE acepta_loop(_, _, _, _, _, _)
acepta_loop(secuencia, phase, pila, visto_t, i, iters) ==
    LET n == Len(secuencia)
    IN  IF phase = 1
        THEN IF i < n /\ secuencia[i + 1] = "t"
             THEN acepta_loop(secuencia, 1, push(pila), TRUE, avance_t(i),
                              iters + 1)
             ELSE acepta_loop(secuencia, 2, pila, visto_t, i, iters)
        ELSE IF i < n /\ secuencia[i + 1] = "h"
             THEN IF pila = << >>
                  THEN [ret |-> FALSE, iters |-> iters + 1, i |-> i, pila |-> pila]
                  ELSE acepta_loop(secuencia, 2, pop(pila),
                                   visto_t, avance_h(i), iters + 1)
             ELSE [ret |-> acepta_return(visto_t, pila, i, n), iters |-> iters,
                   i |-> i, pila |-> pila]

\* PDA.acepta as a function of its argument.
acepta(secuencia) == acepta_loop(secuencia, 1, << >>, FALSE, 0, 0)

\* ------------------------------------------------------------------ state
VARIABLES
    dfa,         \* where fields are kept -> the fields [estado, cont_t, cont_h]
    own,         \* instance -> the fields the calls made on it alone give it
    runCall,     \* caller -> the frame of its call of DFA.run
    aceptaCall,  \* caller -> the frame of its call of PDA.acepta
    last,        \* the operation that made the last step, and who made it
    consumido    \* instance -> the symbols the logged calls of step have
                 \* passed to it since its construction or last reset

vars == <<dfa, own, runCall, aceptaCall, last, consumido>>

\* The fields of every instance kept in one place, as class attributes are.
AttrClass(self) == 1

\* Where the fields of instance self are kept: on the instance itself
\* (self.estado, self.cont_t, self.cont_h).
Attr(self) == self

\* The stack the last call of caller c left behind.
PilaAnterior(c) == aceptaCall[c].pila

\* pila = [] at the start of acepta, in the call of caller c.
NuevaPila(c) == << >>

\* Frames.  Besides the locals of the code a run frame records: steps, the
\* number of step calls made; from_accept, whether the instance was in
\* q_accept when run was called; disturbed, whether another caller operated
\* on the same fields during the call.  An acepta frame records: iters, the
\* number of loop iterations begun; sucia, whether the caller's previous call
\* left a stack that was not empty; profundidad, a counter kept beside the
\* list; ramas, whether the counter's test for empty has agreed with the
\* list's at every if of the h loop.
IdleRun == [pc |-> "idle", secuencia |-> << >>, k |-> 0, ret |-> FALSE,
            self |-> 1, steps |-> 0, from_accept |-> FALSE, disturbed |-> FALSE]
IdleAcepta == [pc |-> "idle", secuencia |-> << >>, pila |-> << >>,
               visto_t |-> FALSE, i |-> 0, n |-> 0, ret |-> FALSE, iters |-> 0,
               sucia |-> FALSE, profundidad |-> 0, ramas |-> TRUE]

Idle(c) == runCall[c].pc = "idle" /\ aceptaCall[c].pc = "idle"

Init ==
    /\ dfa = [d \in Instances |-> DFA_init]
    /\ own = [d \in Instances |-> DFA_init]
    /\ runCall = [c \in Callers |-> IdleRun]
    /\ aceptaCall = [c \in Callers |-> IdleAcepta]
    /\ last = [op |-> "init", caller |-> 0, self |-> 0, simbolo |-> "",
               from |-> DFA_init]
    /\ consumido = [d \in Instances |-> << >>]

\* The run frames after caller c has written the fields of instance self: the
\* running calls of the other callers on the same fields are disturbed.
Disturb(c, self, frames) ==
    [c2 \in Callers |->
        IF /\ c2 # c
           /\ frames[c2].pc \in {"for", "if"}
           /\ Attr(frames[c2].self) = Attr(self)
        THEN [frames[c2] EXCEPT !.disturbed = TRUE]
        ELSE frames[c2]]

\* ------------------------------------------------------------------ DFA calls
\* A direct call self.reset() by caller c.
Reset(c, self) ==
    /\ Idle(c)
    /\ dfa' = [dfa EXCEPT ![Attr(self)] = reset]
    /\ own' = [own EXCEPT ![self] = reset]
    /\ runCall' = Disturb(c, self, runCall)
    /\ last' = [op |-> "reset", caller |-> c, self |-> self, simbolo |-> "",
                from |-> dfa[Attr(self)]]
    /\ UNCHANGED <<aceptaCall, consumido>>

\* A direct call self.step(simbolo) by caller c.
Step(c, self, simbolo) ==
    /\ Idle(c)
    /\ dfa[Attr(self)].cont_t < MaxCount
    /\ dfa' = [dfa EXCEPT ![Attr(self)] = step(dfa[Attr(self)], simbolo)]
    /\ own' = [own EXCEPT ![self] = step(own[self], simbolo)]
    /\ runCall' = Disturb(c, self, runCall)
    /\ last' = [op |-> "step", caller |-> c, self |-> self, simbolo |-> simbolo,
                from |-> dfa[Attr(self)]]
    /\ UNCHANGED <<aceptaCall, consumido>>

\* Caller c calls self.run(secuencia): the call and its self.reset().
RunCall(c, self, secuencia) ==
    /\ Idle(c)
    /\ dfa' = [dfa EXCEPT ![Attr(self)] = run_reset(dfa[Attr(self)])]
    /\ own' = [own EXCEPT ![self] = run_reset(own[self])]
    /\ runCall' = [Disturb(c, self, runCall) EXCEPT ![c] =
                     [pc |-> "for", secuencia |-> secuencia, k |-> 0,
                      ret |-> FALSE, self |-> self, steps |-> 0,
                      from_accept |-> (dfa[Attr(self)].estado = "q_accept"),
                      disturbed |-> FALSE]]
    /\ last' = [op |-> "run_reset", caller |-> c, self |-> self, simbolo |-> "",
                from |-> dfa[Attr(self)]]
    /\ UNCHANGED <<aceptaCall, consumido>>

\* for s in secuencia: self.step(s), with a symbol left.
RunStep(c) ==
    LET f == runCall[c]
        s == f.secuencia[f.k + 1]
    IN  /\ f.pc = "for"
        /\ f.k < Len(f.secuencia)
        /\ dfa' = [dfa EXCEPT ![Attr(f.self)] = step(dfa[Attr(f.self)], s)]
        /\ own' = [own EXCEPT ![f.self] = step(own[f.self], s)]
        /\ runCall' = [Disturb(c, f.self, runCall) EXCEPT ![c] =
                         [f EXCEPT !.k = f.k + 1, !.pc = "if",
                                   !.steps = f.steps + 1]]
        /\ last' = [op |-> "run_step", caller |-> c, self |-> f.self,
                    simbolo |-> s, from |-> dfa[Attr(f.self)]]
        /\ UNCHANGED <<aceptaCall, consumido>>

\* if self.estado == 'q_accept': return True
RunIf(c) ==
    LET f == runCall[c]
    IN  /\ f.pc = "if"
        /\ runCall' = [runCall EXCEPT ![c] =
                         IF dfa[Attr(f.self)].estado = "q_accept"
                         THEN [f EXCEPT !.pc = "done", !.ret = TRUE]
                         ELSE [f EXCEPT !.pc = "for"]]
        /\ last' = [op |-> "run_if", caller |-> c, self |-> f.self,
                    simbolo |-> "", from |-> dfa[Attr(f.self)]]
        /\ UNCHANGED <<dfa, own, aceptaCall, consumido>>

\* The for loop has no symbol left: return False.
RunExhausted(c) ==
    LET f == runCall[c]
    IN  /\ f.pc = "for"
        /\ f.k = Len(f.secuencia)
        /\ runCall' = [runCall EXCEPT ![c].pc = "done", ![c].ret = FALSE]
        /\ last' = [op |-> "run_false", caller |-> c, self |-> f.self,
                    simbolo |-> "", from |-> dfa[Attr(f.self)]]
        /\ UNCHANGED <<dfa, own, aceptaCall, consumido>>

\* The caller has the verdict: the frame of the call is gone.
RunReturn(c) ==
    /\ runCall[c].pc = "done"
    /\ runCall' = [runCall EXCEPT ![c] = IdleRun]
    /\ last' = [op |-> "run_return", caller |-> c, self |-> runCall[c].self,
                simbolo |-> "", from |-> dfa[Attr(runCall[c].self)]]
    /\ UNCHANGED <<dfa, own, aceptaCall, consumido>>

\* ------------------------------------------------------------------ PDA calls
PdaOp(name, c) ==
    [op |-> name, caller |-> c, self |-> 0, simbolo |-> "", from |-> DFA_init]

\* Caller c calls acepta(secuencia): lines 114 to 117.
AceptaCall(c, secuencia) ==
    /\ Idle(c)
    /\ aceptaCall' = [aceptaCall EXCEPT ![c] =
                        [pc |-> "while_t", secuencia |-> secuencia,
                         pila |-> NuevaPila(c), visto_t |-> FALSE, i |-> 0,
                         n |-> Len(secuencia), ret |-> FALSE, iters |-> 0,
                         sucia |-> (aceptaCall[c].pila # << >>),
                         profundidad |-> 0, ramas |-> TRUE]]
    /\ last' = PdaOp("acepta", c)
    /\ UNCHANGED <<dfa, own, runCall, consumido>>

\* while i < n and secuencia[i] == 't': one test of the condition and, when
\* it holds, the body.
AceptaWhileT(c) ==
    LET f == aceptaCall[c]
    IN  /\ f.pc = "while_t"
        /\ aceptaCall' = [aceptaCall EXCEPT ![c] =
                            IF f.i < f.n /\ f.secuencia[f.i + 1] = "t"
                            THEN [f EXCEPT !.pila = push(f.pila),
                                           !.visto_t = TRUE, !.i = avance_t(f.i),
                                           !.iters = f.iters + 1,
                                           !.profundidad = contador_push(f.profundidad)]
                            ELSE [f EXCEPT !.pc = "while_h"]]
        /\ last' = PdaOp("while_t", c)
        /\ UNCHANGED <<dfa, own, runCall, consumido>>

\* while i < n and secuencia[i] == 'h': one test of the condition and, when
\* it holds, the body (with its return False on an empty stack).  The counter
\* profundidad is kept beside the list, and ramas records whether the test of
\* the counter has agreed with the test of the list at every if so far.
AceptaWhileH(c) ==
    LET f == aceptaCall[c]
    IN  /\ f.pc = "while_h"
        /\ aceptaCall' = [aceptaCall EXCEPT ![c] =
                            IF f.i < f.n /\ f.secuencia[f.i + 1] = "h"
                            THEN IF f.pila = << >>
                                 THEN [f EXCEPT !.pc = "done", !.ret = FALSE,
                                                !.iters = f.iters + 1,
                                                !.ramas = f.ramas /\ contador_vacio(f.profundidad)]
                                 ELSE [f EXCEPT !.pila = pop(f.pila),
                                                !.i = avance_h(f.i),
                                                !.iters = f.iters + 1,
                                                !.profundidad = contador_pop(f.profundidad),
                                                !.ramas = f.ramas /\ ~contador_vacio(f.profundidad)]
                            ELSE [f EXCEPT !.pc = "return"]]
        /\ last' = PdaOp("while_h", c)
        /\ UNCHANGED <<dfa, own, runCall, consumido>>

\* return visto_t and (not pila) and i == n
AceptaReturn(c) ==
    LET f == aceptaCall[c]
    IN  /\ f.pc = "return"
        /\ aceptaCall' = [aceptaCall EXCEPT ![c].pc = "done",
                            ![c].ret = acepta_return(f.visto_t, f.pila, f.i, f.n)]
        /\ last' = PdaOp("acepta_return", c)
        /\ UNCHANGED <<dfa, own, runCall, consumido>>

\* The caller has the verdict.  The list the call built is garbage from here
\* on; it stays where it is until the next call makes its own.
AceptaExit(c) ==
    /\ aceptaCall[c].pc = "done"
    /\ aceptaCall' = [aceptaCall EXCEPT ![c] =
                        [IdleAcepta EXCEPT !.pila = aceptaCall[c].pila]]
    /\ last' = PdaOp("acepta_exit", c)
    /\ UNCHANGED <<dfa, own, runCall, consumido>>

\* ------------------------------------------------------------------ specifications
\* Caller c calls run on instance self with an input of the set S.
Run(c, self, S) == Idle(c) /\ \E secuencia \in S : RunCall(c, self, secuencia)

\* Caller c calls acepta with an input of the set S.
Acepta(c, S) == Idle(c) /\ \E secuencia \in S : AceptaCall(c, secuencia)

\* One caller, one DFA instance: reset, step and run in any order.
Next ==
    \/ Reset(1, 1)
    \/ \E simbolo \in Sigma : Step(1, 1, simbolo)
    \/ Run(1, 1, Inputs)
    \/ RunStep(1)
    \/ RunIf(1)
    \/ RunExhausted(1)
    \/ RunReturn(1)

Spec == Init /\ [][Next]_vars

\* One caller of acepta, call after call.
NextPDA ==
    \/ Acepta(1, Inputs)
    \/ AceptaWhileT(1)
    \/ AceptaWhileH(1)
    \/ AceptaReturn(1)
    \/ AceptaExit(1)

SpecPDA == Init /\ [][NextPDA]_vars

\* Two callers of acepta on one PDA instance, their calls interleaved.
NextPDA2 ==
    \E c \in Callers :
        \/ Acepta(c, ConcInputs)
        \/ AceptaWhileT(c)
        \/ AceptaWhileH(c)
        \/ AceptaReturn(c)
        \/ AceptaExit(c)

SpecPDA2 == Init /\ [][NextPDA2]_vars

\* Two callers running on the one instance 1, interleaved between the reset,
\* the step calls and the tests of run.
NextShared ==
    \E c \in Callers :
        \/ Run(c, 1, ConcInputs)
        \/ RunStep(c)
        \/ RunIf(c)
        \/ RunExhausted(c)
        \/ RunReturn(c)

SpecShared == Init /\ [][NextShared]_vars

\* Two callers, caller c working on its own instance c, interleaved.
NextOwn ==
    \E c \in Callers :
        \/ Reset(c, c)
        \/ \E simbolo \in Sigma : Step(c, c, simbolo)
        \/ Run(c, c, ConcInputs)
        \/ RunStep(c)
        \/ RunIf(c)
        \/ RunExhausted(c)
        \/ RunReturn(c)

SpecOwn == Init /\ [][NextOwn]_vars

\* A direct call self.reset() by caller c, logged: the instance has consumed
\* nothing since.
ResetLog(c, self) ==
    /\ Idle(c)
    /\ dfa' = [dfa EXCEPT ![Attr(self)] = reset]
    /\ own' = [own EXCEPT ![self] = reset]
    /\ runCall' = Disturb(c, self, runCall)
    /\ last' = [op |-> "reset", caller |-> c, self |-> self, simbolo |-> "",
                from |-> dfa[Attr(self)]]
    /\ consumido' = [consumido EXCEPT ![self] = << >>]
    /\ UNCHANGED aceptaCall

\* A direct call self.step(simbolo) by caller c, logged: the symbol is added
\* to what the instance has consumed.
StepLog(c, self, simbolo) ==
    /\ Idle(c)
    /\ Len(consumido[self]) < MaxPrefix
    /\ dfa' = [dfa EXCEPT ![Attr(self)] = step(dfa[Attr(self)], simbolo)]
    /\ own' = [own EXCEPT ![self] = step(own[self], simbolo)]
    /\ runCall' = Disturb(c, self, runCall)
    /\ last' = [op |-> "step", caller |-> c, self |-> self, simbolo |-> simbolo,
                from |-> dfa[Attr(self)]]
    /\ consumido' = [consumido EXCEPT ![self] = Append(consumido[self], simbolo)]
    /\ UNCHANGED aceptaCall

\* One caller making direct calls of reset and step on a fresh instance, with
\* the symbols consumed since the last reset on record.
NextSteps ==
    \/ ResetLog(1, 1)
    \/ \E simbolo \in Sigma : StepLog(1, 1, simbolo)

SpecSteps == Init /\ [][NextSteps]_vars

\* One call of run or of acepta by one caller, from the call to the return.
\* The caller is a thread that keeps executing the call it is in.
TermInputs == SeqsUpTo(Sigma, MaxShort)

InCall ==
    \/ RunStep(1)
    \/ RunIf(1)
    \/ RunExhausted(1)
    \/ AceptaWhileT(1)
    \/ AceptaWhileH(1)
    \/ AceptaReturn(1)

NextTerm ==
    \/ Run(1, 1, TermInputs)
    \/ Acepta(1, TermInputs)
    \/ InCall

SpecTerm == Init /\ [][NextTerm]_vars /\ WF_vars(InCall)

\* ------------------------------------------------------------------ properties
\* ttthh, the shortest sequence with the pattern.
Pattern == <<"t", "t", "t", "h", "h">>

\* w is a contiguous part of s.
Contains(s, w) ==
    \E p \in 1..(Len(s) - Len(w) + 1) : SubSeq(s, p, p + Len(w) - 1) = w

\* s has a block of a >= 3 symbols t immediately followed by a block of
\* b >= 2 symbols h.
HasDrought(s) ==
    \E p \in 1..Len(s), a \in 3..Len(s), b \in 2..Len(s) :
        /\ p + a + b - 1 <= Len(s)
        /\ \A j \in p..(p + a + b - 1) : s[j] = (IF j < p + a THEN "t" ELSE "h")

\* C1: when run returns, its verdict is True exactly when the sequence has at
\* least three consecutive t immediately followed by at least two consecutive
\* h, which is exactly when it has ttthh as a contiguous part, and exactly
\* when detectar_patrones reports a sequía list that is not empty.
C1_RunIffPattern ==
    \A c \in Callers :
        runCall[c].pc = "done" =>
            LET s == runCall[c].secuencia
            IN  /\ runCall[c].ret = HasDrought(s)
                /\ runCall[c].ret = Contains(s, Pattern)
                /\ runCall[c].ret = (detectar_patrones(s).sequia # << >>)

\* run has returned True on xtttthh: a block of four t, after another symbol.
C1_Witness ==
    /\ runCall[1].pc = "done"
    /\ runCall[1].ret
    /\ runCall[1].secuencia = <<"x", "t", "t", "t", "t", "h", "h">>

\* C3: whatever reset, step and run calls were made on the instance before,
\* run returns on it what run returns on a freshly constructed instance.
C3_RunIgnoresHistory ==
    \A c \in Callers :
        runCall[c].pc = "done" =>
            runCall[c].ret = run(runCall[c].secuencia).ret

\* run has returned False on hh, called on an instance that was in q_accept.
C3_Witness ==
    /\ runCall[1].pc = "done"
    /\ runCall[1].from_accept
    /\ ~runCall[1].ret
    /\ runCall[1].secuencia = <<"h", "h">>

\* C4: a step made in q_accept, with any symbol, leaves the state q_accept
\* and both counters as they were; an operation that takes an instance out of
\* q_accept is a reset (a direct one, or the one that opens run).
C4_AcceptAbsorbing ==
    /\ \A d \in Instances, simbolo \in Sigma :
          dfa[Attr(d)].estado = "q_accept" =>
              step(dfa[Attr(d)], simbolo) = dfa[Attr(d)]
    /\ (last.op \in {"step", "run_step"} /\ last.from.estado = "q_accept") =>
           dfa[Attr(last.self)] = last.from
    /\ ( /\ last.self \in Instances
         /\ last.from.estado = "q_accept"
         /\ dfa[Attr(last.self)].estado # "q_accept" ) =>
           last.op \in {"reset", "run_reset"}

\* A direct step with x has just been made on an instance in q_accept.
C4_Witness ==
    /\ last.op = "step"
    /\ last.simbolo = "x"
    /\ last.from.estado = "q_accept"
    /\ dfa[Attr(1)].estado = "q_accept"

\* C5: when run returns on a sequence w, its verdict is True if run accepts
\* any contiguous part of w: for all u, s, v with w = u + s + v, run(s) True
\* gives run(w) True.
C5_InfixAccepted ==
    \A c \in Callers :
        runCall[c].pc = "done" =>
            LET w == runCall[c].secuencia
            IN  \A a \in 0..Len(w) : \A b \in a..Len(w) :
                    run(SubSeq(w, a + 1, b)).ret => runCall[c].ret

\* run has returned True on ttth + ttthh: the prefix leaves the automaton in
\* q4 when the accepted part begins.
C5_Witness ==
    /\ runCall[1].pc = "done"
    /\ runCall[1].ret
    /\ runCall[1].secuencia = <<"t", "t", "t", "h", "t", "t", "t", "h", "h">>

\* C8: the state of every instance is one of the six; from it step, with any
\* symbol (z is outside {t, h, r, x}), gives one of the six again and counters
\* that are numbers; the verdict run returns is a boolean.
C8_Total ==
    /\ \A d \in Instances :
          /\ dfa[Attr(d)].estado \in States
          /\ dfa[Attr(d)].cont_t \in Nat
          /\ dfa[Attr(d)].cont_h \in Nat
          /\ \A simbolo \in Sigma :
                LET e == step(dfa[Attr(d)], simbolo)
                IN  e.estado \in States /\ e.cont_t \in Nat /\ e.cont_h \in Nat
    /\ \A c \in Callers : runCall[c].pc = "done" => runCall[c].ret \in BOOLEAN

\* A direct step with z has just been made in q4, and ended in q0.
C8_Witness ==
    /\ last.op = "step"
    /\ last.simbolo = "z"
    /\ last.from.estado = "q4"
    /\ dfa[Attr(1)].estado = "q0"

\* ------------------------------------------------------------------ PDA properties
\* s is t^m h^m for some m >= 1.
InL(s) ==
    \E m \in 1..Len(s) :
        s = [j \in 1..(2 * m) |-> IF j <= m THEN "t" ELSE "h"]

\* C2: when acepta returns, its verdict is True exactly when the sequence is
\* m symbols t followed by m symbols h for some m >= 1; so t^m h^m is
\* accepted, t^a h^b with a # b is rejected, and so is the empty sequence.
C2_AceptaIffBalanced ==
    \A c \in Callers :
        aceptaCall[c].pc = "done" =>
            aceptaCall[c].ret = InL(aceptaCall[c].secuencia)

\* acepta has returned True on ttthhh.
C2_Witness ==
    /\ aceptaCall[1].pc = "done"
    /\ aceptaCall[1].ret
    /\ aceptaCall[1].secuencia = <<"t", "t", "t", "h", "h", "h">>

\* C10: every call of acepta starts with an empty stack, and returns what
\* acepta is as a function of its argument alone, whatever the caller's
\* earlier calls left behind and whatever another caller's call, interleaved
\* with it on the same instance, is doing.
C10_AceptaStateless ==
    \A c \in Callers :
        /\ (aceptaCall[c].pc = "while_t" /\ aceptaCall[c].i = 0) =>
               aceptaCall[c].pila = << >>
        /\ aceptaCall[c].pc = "done" =>
               /\ aceptaCall[c].ret = acepta(aceptaCall[c].secuencia).ret
               /\ aceptaCall[c].pila = acepta(aceptaCall[c].secuencia).pila

\* Caller 1's acepta has returned True on tthh, its previous call having left
\* a stack that was not empty, while caller 2's call is in its h loop with
\* markers on its own stack.
C10_Witness ==
    /\ aceptaCall[1].pc = "done"
    /\ aceptaCall[1].ret
    /\ aceptaCall[1].sucia
    /\ aceptaCall[1].secuencia = <<"t", "t", "h", "h">>
    /\ aceptaCall[2].pc = "while_h"
    /\ aceptaCall[2].pila # << >>

\* ------------------------------------------------------------------ concurrency properties
\* C6: on a shared instance a caller's verdict can differ from the verdict
\* run gives for its sequence on a fresh instance (C6_Witness is such a
\* verdict), and every verdict that differs was given to a call that another
\* caller's reset or step interleaved with.
C6_WrongOnlyIfDisturbed ==
    \A c \in Callers :
        ( /\ runCall[c].pc = "done"
          /\ runCall[c].ret # run(runCall[c].secuencia).ret ) =>
            runCall[c].disturbed

\* Caller 2 has received True for hh, which does not have the pattern, while
\* caller 1 runs ttt on the same instance.
C6_Witness ==
    /\ runCall[2].pc = "done"
    /\ runCall[2].ret
    /\ runCall[2].secuencia = <<"h", "h">>
    /\ ~run(runCall[2].secuencia).ret
    /\ runCall[1].secuencia = <<"t", "t", "t">>
    /\ runCall[1].self = runCall[2].self

\* C7: with an instance for each caller, in every interleaving the fields of
\* each instance are what the calls made on that instance alone give it, no
\* call is disturbed, and run returns to each caller the verdict, and leaves
\* in its instance the fields, that run gives alone.
C7_OwnInstancesIsolated ==
    /\ \A d \in Instances : dfa[Attr(d)] = own[d]
    /\ \A c \in Callers :
          /\ ~runCall[c].disturbed
          /\ runCall[c].pc = "done" =>
                /\ runCall[c].ret = run(runCall[c].secuencia).ret
                /\ dfa[Attr(runCall[c].self)] = run(runCall[c].secuencia).d

\* Caller 1's run of ttthh has just returned True on instance 1 while caller
\* 2's run of ttt on instance 2 has consumed two symbols.
C7_Witness ==
    /\ runCall[1].pc = "done"
    /\ runCall[1].ret
    /\ runCall[1].secuencia = <<"t", "t", "t", "h", "h">>
    /\ runCall[1].self = 1
    /\ runCall[2].pc = "for"
    /\ runCall[2].k = 2
    /\ runCall[2].secuencia = <<"t", "t", "t">>
    /\ runCall[2].self = 2
    /\ last.caller = 1
    /\ dfa[Attr(1)].estado = "q_accept"
    /\ dfa[Attr(2)].estado = "q2"

\* ------------------------------------------------------------------ termination
\* run has made no more step calls than the sequence has symbols; the scan
\* index of acepta has not passed the end, and no more loop iterations were
\* begun than the sequence has symbols.
Bounded ==
    \A c \in Callers :
        /\ runCall[c].steps = runCall[c].k
        /\ runCall[c].steps <= Len(runCall[c].secuencia)
        /\ aceptaCall[c].i <= aceptaCall[c].n
        /\ aceptaCall[c].iters <= aceptaCall[c].n
        /\ aceptaCall[c].pc # "idle" => aceptaCall[c].n = Len(aceptaCall[c].secuencia)
        /\ runCall[c].pc = "done" => runCall[c].ret \in BOOLEAN
        /\ aceptaCall[c].pc = "done" => aceptaCall[c].ret \in BOOLEAN

\* A loop iteration of acepta adds one to the scan index, or returns.
Progress ==
    \A c \in Callers :
        aceptaCall'[c].iters = aceptaCall[c].iters + 1 =>
            \/ aceptaCall'[c].i = aceptaCall[c].i + 1
            \/ aceptaCall'[c].pc = "done"

\* C9: run makes at most len(s) step calls and returns; in acepta the scan
\* index grows by one in every loop iteration that does not return, never
\* passes len(s), and acepta returns a boolean after at most len(s)
\* iterations.
C9_Terminates ==
    /\ []Bounded
    /\ [][Progress]_vars
    /\ (runCall[1].pc = "for") ~> (runCall[1].pc = "done")
    /\ (aceptaCall[1].pc = "while_t") ~> (aceptaCall[1].pc = "done")

\* acepta has returned on tthh after four loop iterations, the scan index at
\* the end.
C9_Witness ==
    /\ aceptaCall[1].pc = "done"
    /\ aceptaCall[1].secuencia = <<"t", "t", "h", "h">>
    /\ aceptaCall[1].iters = 4
    /\ aceptaCall[1].i = 4
    /\ aceptaCall[1].ret

\* ------------------------------------------------------------------ counters
\* C11: after any reset, step and run calls the counters of every instance
\* match its state: q0 has cont_t = 0 and cont_h = 0, q1 has cont_t = 1, q2
\* has cont_t = 2, q3 has cont_t >= 3, q4 has cont_h = 1 and q_accept has
\* cont_h >= 2.
C11_CountersMatchState ==
    \A d \in Instances :
        LET f == dfa[Attr(d)]
        IN  /\ f.estado = "q0" => (f.cont_t = 0 /\ f.cont_h = 0)
            /\ f.estado = "q1" => f.cont_t = 1
            /\ f.estado = "q2" => f.cont_t = 2
            /\ f.estado = "q3" => f.cont_t >= 3
            /\ f.estado = "q4" => f.cont_h = 1
            /\ f.estado = "q_accept" => f.cont_h >= 2

\* A direct step with t has just been made in q4 after four t and one h: the
\* instance is in q1 with cont_t = 1.
C11_Witness ==
    /\ last.op = "step"
    /\ last.simbolo = "t"
    /\ last.from = [estado |-> "q4", cont_t |-> 4, cont_h |-> 1]
    /\ dfa[Attr(1)].estado = "q1"
    /\ dfa[Attr(1)].cont_t = 1

\* ----------------------------------------------------------- early return
\* Position at which the first occurrence of ttthh in s ends: the length of
\* the shortest prefix of s that contains the pattern.
FirstEnd(s) ==
    CHOOSE p \in 5..Len(s) :
        /\ SubSeq(s, p - 4, p) = Pattern
        /\ \A q \in 5..(p - 1) : SubSeq(s, q - 4, q) # Pattern

\* C12: run passes the symbols to step one by one in order (the j-th call of
\* step gets the j-th symbol) and stops at the first symbol whose step gives
\* q_accept: a call that returns True made as many step calls as the
\* shortest prefix containing the pattern is long, a call that returns
\* False made one step call per symbol.
C12_RunStopsAtFirstAccept ==
    \A c \in Callers :
        LET f == runCall[c]
        IN  /\ f.pc # "idle" => f.steps = f.k
            /\ (last.op = "run_step" /\ last.caller = c)
                  => last.simbolo = f.secuencia[f.steps]
            /\ (f.pc = "done" /\ f.ret)
                  => /\ Contains(f.secuencia, Pattern)
                     /\ f.steps = FirstEnd(f.secuencia)
            /\ (f.pc = "done" /\ ~f.ret) => f.steps = Len(f.secuencia)

\* A call has returned True after six step calls on a sequence of seven
\* symbols: the last symbol was never passed to step.
C12_Witness ==
    /\ runCall[1].pc = "done"
    /\ runCall[1].ret
    /\ runCall[1].secuencia = <<"x", "t", "t", "t", "h", "h", "x">>
    /\ runCall[1].steps = 6

\* ---------------------------------------------------------- symbol classes
\* The symbols that are neither 't' nor 'h'.
Otros == Sigma \ {"t", "h"}

\* C13: step tells symbols apart only as 't', 'h' or anything else: in every
\* reachable state of an instance, step gives the same state and counters
\* for any two symbols that are neither 't' nor 'h'; and when a call of run
\* returns, its verdict and the state and counters it leaves are those of run
\* on the sequence with any one such symbol replaced by another such symbol.
C13_OnlyClassMatters ==
    /\ \A d \in Instances : \A a, b \in Otros :
           step(dfa[Attr(d)], a) = step(dfa[Attr(d)], b)
    /\ \A c \in Callers :
           LET f == runCall[c]
           IN  f.pc = "done" =>
                 \A p \in 1..Len(f.secuencia) :
                    f.secuencia[p] \in Otros =>
                      \A b \in Otros :
                         LET r == run([f.secuencia EXCEPT ![p] = b])
                         IN  /\ r.ret = f.ret
                             /\ r.d = dfa[Attr(f.self)]

\* A call of run has returned False on t t t r, where the r broke a run of
\* three t; the instance is back in q0.
C13_Witness ==
    /\ runCall[1].pc = "done"
    /\ ~runCall[1].ret
    /\ runCall[1].secuencia = <<"t", "t", "t", "r">>
    /\ dfa[Attr(1)] = reset

\* ------------------------------------------------------- short runs of 't'
\* The operations that apply step to an instance.
StepOps == {"step", "run_step"}

\* C14: in q1 or q2 a step with a symbol other than 't' ends in q0 with both
\* counters 0, and the re-entry after self.reset() (q1 with cont_t = 1) is
\* never the outcome of a step made in q1 or q2: a step with 't' there goes
\* on to q2 or q3 with one more 't' counted.
C14_ShortRunBroken ==
    /\ \A d \in Instances :
          dfa[Attr(d)].estado \in {"q1", "q2"} =>
             \A simbolo \in Sigma \ {"t"} : step(dfa[Attr(d)], simbolo) = reset
    /\ (last.op \in StepOps /\ last.from.estado \in {"q1", "q2"}) =>
          LET now == dfa[Attr(last.self)]
          IN  /\ last.simbolo # "t" => now = reset
              /\ last.simbolo = "t" =>
                    /\ now.cont_t = last.from.cont_t + 1
                    /\ now.estado = (IF last.from.estado = "q1" THEN "q2" ELSE "q3")
              /\ now # [estado |-> "q1", cont_t |-> 1, cont_h |-> 0]

\* A direct step with h has just been made in q2: the instance is in q0 with
\* both counters 0.
C14_Witness ==
    /\ last.op = "step"
    /\ last.simbolo = "h"
    /\ last.from = [estado |-> "q2", cont_t |-> 2, cont_h |-> 0]
    /\ dfa[Attr(1)] = reset

\* ----------------------------------------------------------- restart in q4
\* C15: a step with 't' in q4 leaves the instance in q1 with cont_t = 1 and
\* cont_h = 0, so the 't' starts a new run of heat: run rejects ttthtthh
\* (two t after the lone h) and accepts ttthttthh (three t after it).
C15_RestartFromQ4 ==
    /\ \A d \in Instances :
          dfa[Attr(d)].estado = "q4" =>
             step(dfa[Attr(d)], "t") = [estado |-> "q1", cont_t |-> 1, cont_h |-> 0]
    /\ (last.op \in StepOps /\ last.from.estado = "q4" /\ last.simbolo = "t") =>
          dfa[Attr(last.self)] = [estado |-> "q1", cont_t |-> 1, cont_h |-> 0]
    /\ \A c \in Callers :
          runCall[c].pc = "done" =>
             /\ runCall[c].secuencia = <<"t","t","t","h","t","t","h","h">>
                   => ~runCall[c].ret
             /\ runCall[c].secuencia = <<"t","t","t","h","t","t","t","h","h">>
                   => runCall[c].ret

\* Inside run on ttthttthh, the step of the fifth symbol has just taken the
\* instance from q4 to q1.
C15_Witness ==
    /\ last.op = "run_step"
    /\ last.simbolo = "t"
    /\ last.from.estado = "q4"
    /\ runCall[1].secuencia = <<"t","t","t","h","t","t","t","h","h">>
    /\ runCall[1].k = 5
    /\ dfa[Attr(1)].estado = "q1"

\* -------------------------------------------------------- stack discipline
\* Number of positions of s that hold the symbol a.
Cuenta(s, a) == Cardinality({p \in 1..Len(s) : s[p] = a})

\* The part of its argument a call of acepta has consumed.
Consumido(f) == SubSeq(f.secuencia, 1, f.i)

\* C16: during a call of acepta the consumed symbols are t (each one a push)
\* followed by h (each one a pop), so every push comes before any pop; the
\* depth of the stack is the number of t consumed minus the number of h
\* consumed, which is never negative; and the call that meets an h with the
\* stack empty has returned False at once, with the scan index still at that
\* h and nothing popped.
C16_StackDiscipline ==
    \A c \in Callers :
        LET f == aceptaCall[c]
            u == Consumido(f)
        IN  f.pc # "idle" =>
              /\ \A p \in 1..Len(u) : u[p] \in {"t", "h"}
              /\ \A p, q \in 1..Len(u) : (p < q /\ u[p] = "h") => u[q] = "h"
              /\ f.pc = "while_t" => Cuenta(u, "h") = 0
              /\ Cuenta(u, "t") >= Cuenta(u, "h")
              /\ Len(f.pila) = Cuenta(u, "t") - Cuenta(u, "h")
              /\ (f.pc = "done" /\ last.op = "while_h" /\ last.caller = c) =>
                    /\ ~f.ret
                    /\ f.pila = << >>
                    /\ f.i < f.n
                    /\ f.secuencia[f.i + 1] = "h"
                    /\ f.iters = f.i + 1

\* The call on t t h h h has met the third h with the stack empty and has
\* returned False with the scan index at that h.
C16_Witness ==
    /\ aceptaCall[1].pc = "done"
    /\ last.op = "while_h"
    /\ aceptaCall[1].secuencia = <<"t", "t", "h", "h", "h">>
    /\ aceptaCall[1].i = 4
    /\ ~aceptaCall[1].ret

\* ---------------------------------------------------------- 't' after 'h'
\* s has a 't' somewhere after an 'h'.
TDespuesDeH(s) ==
    \E p, q \in 1..Len(s) : p < q /\ s[p] = "h" /\ s[q] = "t"

\* The call of caller c has returned through the last line of acepta, with
\* the h loop stopped at a symbol other than 'h' before the end.
PorComprobacionFinal(c) ==
    LET f == aceptaCall[c]
    IN  /\ last.op = "acepta_return"
        /\ f.i < f.n
        /\ f.secuencia[f.i + 1] # "h"

\* The call of caller c has returned from the if of the h loop.
PorPilaVacia(c) ==
    LET f == aceptaCall[c]
    IN  /\ last.op = "while_h"
        /\ f.pila = << >>
        /\ f.i < f.n
        /\ f.secuencia[f.i + 1] = "h"

\* C17 as stated: every sequence with a 't' after an 'h' is rejected through
\* the final check and not by the return on an empty stack.
C17_AsStated ==
    \A c \in Callers :
        (aceptaCall[c].pc = "done" /\ TDespuesDeH(aceptaCall[c].secuencia))
           => (~aceptaCall[c].ret /\ PorComprobacionFinal(c))

\* C17: every sequence with a 't' after an 'h' is rejected by acepta; through
\* the final check (the h loop stopped at a symbol other than 'h' before the
\* end, so i == n fails) when the h's that follow the leading t's do not
\* outnumber them, and by the return on an empty stack when they do.
C17_TAfterHRejected ==
    \A c \in Callers :
        LET f == aceptaCall[c]
            a == Block(f.secuencia, 1, "t")
            b == Block(f.secuencia, a + 1, "h")
        IN  (f.pc = "done" /\ TDespuesDeH(f.secuencia)) =>
              /\ ~f.ret
              /\ b <= a => PorComprobacionFinal(c)
              /\ b > a => PorPilaVacia(c)

\* The call on t h h t has returned False from the if of the h loop, at the
\* second h.
C17_Witness ==
    /\ aceptaCall[1].pc = "done"
    /\ aceptaCall[1].secuencia = <<"t", "h", "h", "t">>
    /\ ~aceptaCall[1].ret
    /\ PorPilaVacia(1)
    /\ aceptaCall[1].i = 2

\* ------------------------------------------------------ counter for the list
\* C18: a counter kept beside the list (one more for each push, one less for
\* each pop, 0 for empty) is the length of the list at every point of a call,
\* its test for empty has agreed with the test of the list at every if of the
\* h loop, it agrees with it at the point reached, and the verdict returned
\* is the one the counter gives.
C18_CounterRefinesStack ==
    \A c \in Callers :
        LET f == aceptaCall[c]
        IN  f.pc # "idle" =>
              /\ f.profundidad = Len(f.pila)
              /\ f.ramas
              /\ contador_vacio(f.profundidad) = (f.pila = << >>)
              /\ (f.pc = "done" /\ last.op = "acepta_return" /\ last.caller = c) =>
                    f.ret = (f.visto_t /\ contador_vacio(f.profundidad) /\ f.i = f.n)
              /\ (f.pc = "done" /\ last.op = "while_h" /\ last.caller = c) =>
                    (~f.ret /\ contador_vacio(f.profundidad))

\* The call on t t t h h is in the h loop with two h consumed: one marker is
\* left and the counter is 1.
C18_Witness ==
    /\ aceptaCall[1].pc = "while_h"
    /\ aceptaCall[1].secuencia = <<"t", "t", "t", "h", "h">>
    /\ aceptaCall[1].i = 5
    /\ aceptaCall[1].pila = <<"T">>
    /\ aceptaCall[1].profundidad = 1

\* ------------------------------------------------- counters and the prefix
\* Length of the maximal run of symbol a at the end of u.
RECURSIVE Cola(_, _)
Cola(u, a) ==
    IF u # << >> /\ u[Len(u)] = a
    THEN 1 + Cola(SubSeq(u, 1, Len(u) - 1), a)
    ELSE 0

\* Length of the run of 't' that immediately precedes the 'h' symbols at the
\* end of u.
TAntesDeH(u) == Cola(SubSeq(u, 1, Len(u) - Cola(u, "h")), "t")

\* What C19 says of q0 to q4: cont_t against the symbols consumed.
AntesDeAceptar(f, u) ==
    /\ f.estado \in {"q1", "q2", "q3"} => f.cont_t = Cola(u, "t")
    /\ f.estado = "q4" => (Cola(u, "h") = 1 /\ f.cont_t = TAntesDeH(u))
    /\ f.estado = "q0" => (u = << >> \/ u[Len(u)] # "t")

\* C19 as stated: in q_accept too, cont_t is the length of the run of 't'
\* that immediately precedes the 'h' symbols at the end of what the instance
\* has consumed.
C19_AsStated ==
    \A d \in Instances :
        LET f == dfa[Attr(d)]
            u == consumido[d]
        IN  /\ AntesDeAceptar(f, u)
            /\ f.estado = "q_accept" => f.cont_t = TAntesDeH(u)

\* C19: after a fresh or reset instance has consumed u by step calls, in q1,
\* q2 or q3 cont_t is the length of the run of 't' at the end of u; in q4 it
\* is the length of the run of 't' before the one 'h' at the end of u; in q0
\* u is empty or ends in a symbol other than 't'; and in q_accept cont_t is
\* the length of the run of 't' before the two 'h' that end the shortest
\* prefix of u containing the pattern, whatever was consumed after it.
C19_CountersTrackPrefix ==
    \A d \in Instances :
        LET f == dfa[Attr(d)]
            u == consumido[d]
        IN  /\ AntesDeAceptar(f, u)
            /\ f.estado = "q_accept" =>
                  /\ Contains(u, Pattern)
                  /\ f.cont_t = TAntesDeH(SubSeq(u, 1, FirstEnd(u)))
                  /\ Len(u) = FirstEnd(u) => f.cont_t = TAntesDeH(u)

\* The instance has consumed t t t h h and then x: it is in q_accept with
\* cont_t = 3, and no h ends what it has consumed.
C19_Witness ==
    /\ consumido[1] = <<"t", "t", "t", "h", "h", "x">>
    /\ dfa[Attr(1)] = [estado |-> "q_accept", cont_t |-> 3, cont_h |-> 2]

\* ------------------------------------------------------ verdict and state
\* The fields of an instance after step has been applied to d for every
\* symbol of s from position k on, with no early stop.
RECURSIVE step_all(_, _, _)
step_all(d, s, k) ==
    IF k > Len(s) THEN d ELSE step_all(step(d, s[k]), s, k + 1)

\* C20: when a call of run returns, the verdict is True exactly when the
\* instance is left in q_accept, and then cont_h = 2 and cont_t >= 3; when
\* the verdict is False the instance is left in one of q0 to q4, with the
\* fields a fresh instance has after step has been applied to it for every
\* symbol of the sequence.
C20_VerdictMatchesState ==
    \A c \in Callers :
        LET f == runCall[c]
            now == dfa[Attr(f.self)]
        IN  f.pc = "done" =>
              /\ f.ret = (now.estado = "q_accept")
              /\ f.ret => (now.cont_h = 2 /\ now.cont_t >= 3)
              /\ ~f.ret =>
                    /\ now.estado \in {"q0", "q1", "q2", "q3", "q4"}
                    /\ now = step_all(DFA_init, f.secuencia, 1)

\* A call of run on t t t t h, made on an instance that was in q_accept, has
\* returned False and left the instance in q4 with cont_t = 4.
C20_Witness ==
    /\ runCall[1].pc = "done"
    /\ ~runCall[1].ret
    /\ runCall[1].from_accept
    /\ runCall[1].secuencia = <<"t", "t", "t", "t", "h">>
    /\ dfa[Attr(1)] = [estado |-> "q4", cont_t |-> 4, cont_h |-> 1]

=============================================================================
